---- MODULE Spec2Model ----
(***************************************************************************)
(* A model of stream-index.py: the row normaliser read_and_standardise,    *)
(* the text canonicaliser canonicalise, the link sanitiser wikify_link,    *)
(* the argument flattener as_template_argument and the table renderer      *)
(* generate_wiki_source.                                                   *)
(*                                                                         *)
(* Python strings are sequences of one-character strings, so that          *)
(* str.replace, str.startswith, int() and f-string formatting are computed *)
(* rather than assumed.  None is NoneInt for an integer slot and NoneDate  *)
(* for a date slot.  A dict is a function from its keys, with the order of *)
(* its items given by KeyOrder / VodKeyOrder.                              *)
(***************************************************************************)
EXTENDS Integers, Sequences, FiniteSets, TLC

VARIABLES
    pc,                     \* "idle", "read", "render", "done" or "crashed"
    replacements,           \* the ordered replacement pairs (replacements.json)
    additional_stream_data, \* index -> extra fields (additional_stream_data.json)
    to_skip,                \* rows islice still has to discard
    nrows,                  \* rows the for loop has taken so far
    previous_index,         \* local of read_and_standardise
    previous_date,          \* local of read_and_standardise
    part,                   \* local of read_and_standardise
    rows,                   \* the records yielded so far (list(...) in __main__)
    src_index,              \* history: the raw index field each record came from
    last,                   \* history: the row taken last and what became of it
    seen,                   \* history: the index values of the rows taken
    out,                    \* the lines generate_wiki_source yielded
    cpc,                    \* canonicalise: "idle", "first", "second" or "done"
    creplacements,          \* canonicalise: its replacements argument
    ck,                     \* canonicalise: items of the loop already applied
    cvalue,                 \* canonicalise: its local value
    cfirst                  \* history: what the first call returned

vars == <<pc, replacements, additional_stream_data, to_skip, nrows,
          previous_index, previous_date, part, rows, src_index, last, seen,
          out, cpc, creplacements, ck, cvalue, cfirst>>

nvars == <<pc, replacements, additional_stream_data, to_skip, nrows,
           previous_index, previous_date, part, rows, src_index, last,
           seen, out>>

cvars == <<cpc, creplacements, ck, cvalue, cfirst>>

-----------------------------------------------------------------------------
(* Bounds of the model.                                                    *)

MaxRows == 5

MaxLen == 4

-----------------------------------------------------------------------------
(* Python values.                                                          *)

NoneInt == -1

NoneDate == <<"None">>

DigitChar == <<"0", "1", "2", "3", "4", "5", "6", "7", "8", "9">>

DigitValue(c) == (CHOOSE d \in 1..10 : DigitChar[d] = c) - 1

\* int(index) on a string of decimal digits
RECURSIVE ParseInt(_)
ParseInt(s) ==
    IF s = <<>> THEN 0
    ELSE 10 * ParseInt(SubSeq(s, 1, Len(s) - 1)) + DigitValue(s[Len(s)])

\* f"{n}" for a natural number
RECURSIVE Str(_)
Str(n) ==
    IF n < 10 THEN <<DigitChar[n + 1]>>
    ELSE Str(n \div 10) \o <<DigitChar[(n % 10) + 1]>>

\* s.startswith(prefix)
StartsWith(s, prefix) ==
    Len(s) >= Len(prefix) /\ SubSeq(s, 1, Len(prefix)) = prefix

\* s.replace("", new): new before every character and at the end
RECURSIVE ReplaceEmpty(_, _)
ReplaceEmpty(s, new) ==
    IF s = <<>> THEN new
    ELSE new \o <<Head(s)>> \o ReplaceEmpty(Tail(s), new)

\* s.replace(old, new) for a non-empty old: leftmost, non-overlapping
RECURSIVE ReplaceFrom(_, _, _)
ReplaceFrom(s, old, new) ==
    IF Len(s) < Len(old) THEN s
    ELSE IF StartsWith(s, old)
         THEN new \o ReplaceFrom(SubSeq(s, Len(old) + 1, Len(s)), old, new)
         ELSE <<Head(s)>> \o ReplaceFrom(Tail(s), old, new)

\* A slip: only the first occurrence is replaced.
ReplaceFirstOnly(s, old, new) ==
    IF \E i \in 1..(Len(s) - Len(old) + 1) : SubSeq(s, i, i + Len(old) - 1) = old
    THEN LET i == CHOOSE j \in 1..(Len(s) - Len(old) + 1) :
                      /\ SubSeq(s, j, j + Len(old) - 1) = old
                      /\ \A h \in 1..(j - 1) : SubSeq(s, h, h + Len(old) - 1) # old
         IN  SubSeq(s, 1, i - 1) \o new \o SubSeq(s, i + Len(old), Len(s))
    ELSE s

\* str.replace
Replace(s, old, new) ==
    IF old = <<>> THEN ReplaceEmpty(s, new) ELSE ReplaceFrom(s, old, new)

\* canonicalise: the replacements applied in order, each to the result of
\* the one before
RECURSIVE canonicalise(_, _)
canonicalise(reps, value) ==
    IF reps = <<>> THEN value
    ELSE canonicalise(Tail(reps),
                      Replace(value, Head(reps).target, Head(reps).replacement))

HTTPS == <<"h", "t", "t", "p", "s", ":", "/", "/">>

EQUALS == <<"=">>

ENTITY == <<"&", "#", "6", "1", ";">>

\* the link wikify_link stores under its key (for a non-empty link)
SanitisedLink(link) ==
    LET link_with_protocol == IF StartsWith(link, HTTPS) THEN link ELSE HTTPS \o link
    IN  Replace(link_with_protocol, EQUALS, ENTITY)

\* {**wikify_link("with_chat", a), **wikify_link("without_chat", b)}
Vods(vod_with_chat, vod_without_chat) ==
    LET present == {k \in {"with_chat", "without_chat"} :
                       IF k = "with_chat" THEN vod_with_chat # <<>>
                       ELSE vod_without_chat # <<>>}
    IN  [k \in present |->
            IF k = "with_chat" THEN SanitisedLink(vod_with_chat)
            ELSE SanitisedLink(vod_without_chat)]

-----------------------------------------------------------------------------
(* The rows of the spreadsheet the model draws from.                       *)

Signalis == <<"S", "i", "g", "n", "a", "l", "i", "s">>

Game1 == <<"D", "S", "!">>

Today == <<"(", "T", "o", "d", "a", "y", ")">>

Date1 == <<"Mon", 3, 4, 2024>>

Date2 == <<"Tue", 3, 5, 2024>>

BadDate == <<"soon">>

Link1 == <<"v", "=", "1">>

Link2 == HTTPS \o <<"w">>

\* a spreadsheet row: the first nine columns, of which read_and_standardise
\* ignores the seventh and the eighth
Row(i, d, o, g) ==
    [index |-> i, date |-> d, other_date |-> o, game |-> g,
     game_index |-> IF g = Game1 THEN <<"2">> ELSE <<>>,
     vod_with_chat |-> IF g = Game1 THEN Link1 ELSE <<>>,
     vod_without_chat |-> IF i = <<"6">> THEN Link2 ELSE <<>>]

\* rows with an index of their own
StreamRows ==
    {Row(<<"5">>, Date1, <<>>, Game1),
     Row(<<"5">>, Date1, <<>>, Signalis),
     Row(<<"6">>, Date2, <<>>, Game1),
     Row(<<"6">>, Date2, <<>>, Signalis),
     Row(<<"6">>, <<>>, <<>>, Game1),
     Row(<<"3", "0", "1">>, Date1, <<>>, Signalis)}

\* rows that continue the stream above them
ContinuationRows ==
    {Row(<<>>, <<>>, <<>>, Game1),
     Row(<<>>, <<>>, <<>>, Signalis)}

\* the rows of the graph below the table
GraphRows ==
    {Row(<<>>, Date2, <<>>, Game1),
     Row(<<"5">>, Date1, Today, Game1),
     Row(<<>>, <<>>, Today, Signalis)}

\* a row whose date strptime rejects
BadRows == {Row(<<"5">>, BadDate, <<>>, Game1)}

RawRows == StreamRows \cup ContinuationRows \cup GraphRows \cup BadRows

\* replacements.json: a rule deleting a suffix, then a rule fixing a letter
ReplacementSets ==
    {<<[target |-> <<"!">>, replacement |-> <<>>],
       [target |-> <<"D", "S">>, replacement |-> <<"D", "s">>]>>}

Guests == <<<<"a", "n", "n">>, <<"b", "o", "b">>>>

NoTable == [i \in {} |-> <<>>]

\* additional_stream_data.json with fields beside the core fields of a record
AdditiveTables == {NoTable, [i \in {5} |-> [guests |-> Guests]]}

\* additional_stream_data.json with fields named like core fields of a record
OverrideTables ==
    {[i \in {5} |-> [part |-> 7]],
     [i \in {6} |-> [index |-> 5]],
     [i \in {5} |-> [game |-> <<"X">>, guests |-> Guests]]}

-----------------------------------------------------------------------------
(* read_and_standardise.                                                   *)

\* A slip: only the (Today) rows are taken for the graph.
IsGraphTodayOnly(row) == row.other_date = Today

\* "Skip graph at the end."
IsGraph(row) ==
    (row.index = <<>> /\ row.date # <<>>) \/ row.other_date = Today

CurrentIndexOffByOne(index, prev_index) ==
    IF index # <<>> THEN ParseInt(index) + 1 ELSE prev_index

\* current_index = int(index) if index else previous_index
CurrentIndex(index, prev_index) ==
    IF index # <<>> THEN ParseInt(index) ELSE prev_index

\* current_date = date if date else previous_date
CurrentDate(date, prev_date) == IF date # <<>> THEN date ELSE prev_date

\* part = part + 1 if not index else 1
NextPart(index, p) == IF index = <<>> THEN p + 1 ELSE 1

JokeIndexLimit == 300

\* "Skip joke Signalis entries."
IsJoke(current_index, game) == current_index < JokeIndexLimit /\ game = Signalis

\* what strptime(current_date, "%a, %m/%d/%Y") accepts
DateParses(current_date) == current_date # NoneDate /\ Len(current_date) = 4

\* datetime.strptime(current_date, "%a, %m/%d/%Y").strftime("%Y-%m-%d")
FormatDate(current_date) == <<current_date[4], current_date[2], current_date[3]>>

\* additional_stream_data.get(current_index, {})
Additional(table, current_index) ==
    IF current_index \in DOMAIN table THEN table[current_index] ELSE <<>>

\* {**core, **additional}: an item of additional replaces the item of core
\* with the same key
Merge(core, additional) ==
    [k \in (DOMAIN core) \cup (DOMAIN additional) |->
        IF k \in DOMAIN additional THEN additional[k] ELSE core[k]]

\* the dict read_and_standardise yields
Record(row, current_index, current_date, p, reps, table) ==
    Merge([index |-> current_index,
           date |-> FormatDate(current_date),
           part |-> p,
           game |-> canonicalise(reps, row.game),
           game_index |-> row.game_index,
           vod |-> Vods(row.vod_with_chat, row.vod_without_chat)],
          Additional(table, current_index))

\* A slip: the joke entry is skipped after previous_index was assigned.
AfterJokeIndexAdvanced(prev_index, current_index) == current_index

\* the previous_index the loop goes on with after a joke entry is skipped:
\* continue comes before previous_index, previous_date = ...
AfterJokeIndex(prev_index, current_index) == prev_index

NoLast ==
    [kind |-> "none", index |-> <<>>, date |-> <<>>, other_date |-> <<>>,
     current_index |-> NoneInt, current_date |-> NoneDate, part |-> 0]

Seen(kind, row, current_index, current_date, p) ==
    [kind |-> kind, index |-> row.index, date |-> row.date,
     other_date |-> row.other_date,
     current_index |-> current_index, current_date |-> current_date,
     part |-> p]

NoneSeen == [indices |-> {}, repeated |-> FALSE]

\* seen, once the loop has taken a row with this index field
SeenWith(index) ==
    IF index = <<>> THEN seen
    ELSE [indices |-> seen.indices \cup {ParseInt(index)},
          repeated |-> seen.repeated \/ ParseInt(index) \in seen.indices]

CanonIdle ==
    /\ cpc = "idle"
    /\ creplacements = <<>>
    /\ ck = 0
    /\ cvalue = <<>>
    /\ cfirst = <<>>

InitWith(tables) ==
    /\ pc = "read"
    /\ replacements \in ReplacementSets
    /\ additional_stream_data \in tables
    /\ to_skip \in {1, 2}
    /\ nrows = 0
    /\ previous_index = NoneInt
    /\ previous_date = NoneDate
    /\ part = 1
    /\ rows = <<>>
    /\ src_index = <<>>
    /\ last = NoLast
    /\ seen = NoneSeen
    /\ out = <<>>
    /\ CanonIdle

Init == InitWith(AdditiveTables)

InitOverride == InitWith(OverrideTables)

\* itertools.islice(reader, skip_rows + 1, None) discards a leading row
SkipRow ==
    /\ pc = "read"
    /\ to_skip > 0
    /\ \E row \in RawRows :
         /\ to_skip' = to_skip - 1
         /\ last' = [NoLast EXCEPT !.kind = "skipped"]
    /\ UNCHANGED <<pc, replacements, additional_stream_data, nrows,
                   previous_index, previous_date, part, rows, src_index, seen,
                   out>>
    /\ UNCHANGED cvars

\* one turn of the for loop of read_and_standardise
ReadRow ==
    /\ pc = "read"
    /\ to_skip = 0
    /\ nrows < MaxRows
    /\ \E row \in RawRows :
         LET current_index == CurrentIndex(row.index, previous_index)
             current_date == CurrentDate(row.date, previous_date)
             p == NextPart(row.index, part)
         IN  /\ nrows' = nrows + 1
             /\ seen' = SeenWith(row.index)
             /\ IF IsGraph(row)
                THEN \* continue, before anything is computed
                     /\ last' = Seen("graph", row, NoneInt, NoneDate, part)
                     /\ UNCHANGED <<pc, previous_index, previous_date, part,
                                    rows, src_index>>
                ELSE IF current_index = NoneInt
                THEN \* None < 300 raises TypeError
                     /\ pc' = "crashed"
                     /\ part' = p
                     /\ last' = Seen("crash", row, current_index, current_date, p)
                     /\ UNCHANGED <<previous_index, previous_date, rows, src_index>>
                ELSE IF IsJoke(current_index, row.game)
                THEN \* continue, after part was assigned
                     /\ part' = p
                     /\ previous_index' = AfterJokeIndex(previous_index, current_index)
                     /\ last' = Seen("joke", row, current_index, current_date, p)
                     /\ UNCHANGED <<pc, previous_date, rows, src_index>>
                ELSE IF ~DateParses(current_date)
                THEN \* strptime raises TypeError or ValueError
                     /\ pc' = "crashed"
                     /\ part' = p
                     /\ last' = Seen("crash", row, current_index, current_date, p)
                     /\ UNCHANGED <<previous_index, previous_date, rows, src_index>>
                ELSE \* yield, then previous_index, previous_date = ...
                     /\ part' = p
                     /\ rows' = Append(rows, Record(row, current_index, current_date,
                                                    p, replacements,
                                                    additional_stream_data))
                     /\ src_index' = Append(src_index, row.index)
                     /\ previous_index' = current_index
                     /\ previous_date' = current_date
                     /\ last' = Seen("emitted", row, current_index, current_date, p)
                     /\ UNCHANGED pc
    /\ UNCHANGED <<replacements, additional_stream_data, to_skip, out>>
    /\ UNCHANGED cvars

\* the reader is exhausted: the generator returns and its locals are gone
EndOfInput ==
    /\ pc = "read"
    /\ pc' = "render"
    /\ previous_index' = NoneInt
    /\ previous_date' = NoneDate
    /\ part' = 1
    /\ to_skip' = 0
    /\ last' = NoLast
    /\ seen' = NoneSeen
    /\ nrows' = 0
    /\ UNCHANGED <<replacements, additional_stream_data, rows, src_index, out>>
    /\ UNCHANGED cvars

-----------------------------------------------------------------------------
(* as_template_argument and generate_wiki_source.                          *)

\* the order of the items of a record, then of what the renderer adds
KeyOrder ==
    <<"index", "date", "part", "game", "game_index", "vod", "guests",
      "color", "last_part">>

VodKeyOrder == <<"with_chat", "without_chat">>

\* the keys whose values are int, Mapping, and non-str Iterable
IntKeys == {"index", "part", "last_part"}

MapKeys == {"vod"}

ListKeys == {"guests"}

\* colors.json
Colors == {<<"r", "e", "d">>, <<"t", "e", "a", "l">>}

\* bool(value): zero, the empty string, the empty list and the empty dict
\* are false
Truthy(key, value) ==
    IF key \in IntKeys THEN value # 0 ELSE DOMAIN value # {}

\* f"{value}"
Format(key, value) == IF key \in IntKeys THEN Str(value) ELSE value

RECURSIVE MapArguments(_, _, _)
MapArguments(key, value, subkeys) ==
    IF subkeys = <<>> THEN <<>>
    ELSE (IF Head(subkeys) \in DOMAIN value
          THEN <<[name |-> <<key, "_", Head(subkeys)>>,
                  value |-> value[Head(subkeys)]]>>
          ELSE <<>>)
         \o MapArguments(key, value, Tail(subkeys))

\* the strings as_template_argument yields, each as its name and its value
as_template_argument(key, value) ==
    IF key \in MapKeys THEN MapArguments(key, value, VodKeyOrder)
    ELSE IF key \in ListKeys
    THEN [i \in 1..Len(value) |->
             [name |-> IF i > 1 THEN <<key>> \o Str(i) ELSE <<key>>,
              value |-> value[i]]]
    ELSE <<[name |-> <<key>>, value |-> Format(key, value)]>>

\* A slip: part > 0, which every record has.
MultipartAnyPart(rs) == {rs[i].index : i \in {j \in 1..Len(rs) : rs[j].part > 0}}

\* {row["index"] for row in rows if row["part"] > 1}
Multipart(rs) == {rs[i].index : i \in {j \in 1..Len(rs) : rs[j].part > 1}}

\* the keys of games
GameTitles(rs) == {rs[i].game : i \in 1..Len(rs)}

\* del d[key]
Del(d, key) == [k \in (DOMAIN d) \ {key} |-> d[k]]

\* template_args once the part was dropped or last_part was set
TemplateArgs(row, color, multipart, prev_index) ==
    LET template_args == Merge(row, [color |-> color])
    IN  IF row.index \notin multipart
        THEN Del(template_args, "part")
        ELSE IF prev_index # row.index
             THEN Merge(template_args, [last_part |-> 1])
             ELSE template_args

RECURSIVE Flatten(_, _)
Flatten(template_args, keys) ==
    IF keys = <<>> THEN <<>>
    ELSE (IF Head(keys) \in DOMAIN template_args
             /\ Truthy(Head(keys), template_args[Head(keys)])
          THEN as_template_argument(Head(keys), template_args[Head(keys)])
          ELSE <<>>)
         \o Flatten(template_args, Tail(keys))

\* the arguments joined into one StreamIndexEntry line
Arguments(template_args) == Flatten(template_args, KeyOrder)

\* A slip: the rows are walked in input order.
NotReversed(s) == s

\* reversed(s)
Reversed(s) == [j \in 1..Len(s) |-> s[Len(s) + 1 - j]]

Text(t) == [kind |-> "text", text |-> t, arguments |-> <<>>, of |-> 0]

SCRIPT == "https://github.com/jads-dev/joepedia-stream-index"

WARNING ==
    <<Text("<!--"),
      Text("  This content is generated by a script which can be found at "),
      Text("  https://github.com/jads-dev/joepedia-stream-index."),
      Text("  Manual changes **WILL BE LOST** when the script is next run, you almost"),
      Text("  certainly want to re-run the script with new data, make changes to the "),
      Text("  script, or modify the StreamIndexEntry template instead."),
      Text("-->")>>

HeaderRow == Text("! # !! Date !! Game !! No. in Series !! Available VODs")

TableClose == Text("|}")

\* the lines before the entries, after the warning
Preamble ==
    <<Text("<div style=\"display: flex; justify-content: center;\">"),
      Text("{| class=\"wikitable\" "),
      [kind |-> "caption", text |-> SCRIPT, arguments |-> <<>>, of |-> 0],
      Text("|-"),
      HeaderRow,
      Text("")>>

\* the for loop of generate_wiki_source: one line for each row of order,
\* a sequence of positions in rs
Entries(rs, order, games, multipart) ==
    [j \in 1..Len(order) |->
        LET row == rs[order[j]]
            prev_index == IF j = 1 THEN NoneInt ELSE rs[order[j - 1]].index
        IN  [kind |-> "entry",
             text |-> "StreamIndexEntry",
             arguments |-> Arguments(TemplateArgs(row, games[row.game],
                                                  multipart, prev_index)),
             of |-> order[j]]]

\* the lines generate_wiki_source yields
generate_wiki_source(rs, games) ==
    WARNING
    \o Preamble
    \o Entries(rs, Reversed([i \in 1..Len(rs) |-> i]), games, Multipart(rs))
    \o <<TableClose, Text("</div>")>>
    \o WARNING
    \o <<Text("")>>

\* wikitext = generate_wiki_source(data_source_id, rows, colors), written out
Render ==
    /\ pc = "render"
    /\ \E games \in [GameTitles(rows) -> Colors] :
         out' = generate_wiki_source(rows, games)
    /\ pc' = "done"
    /\ UNCHANGED <<replacements, additional_stream_data, to_skip, nrows,
                   previous_index, previous_date, part, rows, src_index, last,
                   seen>>
    /\ UNCHANGED cvars

Next == SkipRow \/ ReadRow \/ EndOfInput \/ Render

Spec == Init /\ [][Next]_vars

-----------------------------------------------------------------------------
(* canonicalise, called on a title and then on what it returned.           *)

\* the strings over the alphabet of length n
RECURSIVE StringsOfLength(_, _)
StringsOfLength(alphabet, n) ==
    IF n = 0 THEN {<<>>}
    ELSE {<<c>> \o t : c \in alphabet, t \in StringsOfLength(alphabet, n - 1)}

\* the titles canonicalise is called on
Titles == UNION {StringsOfLength({"a", "b"}, n) : n \in 0..MaxLen}

\* the keys and the values of replacements.json
Targets == {<<>>, <<"a">>, <<"b">>, <<"a", "a">>, <<"a", "b">>, <<"b", "a">>}

Outputs == {<<>>, <<"a">>, <<"b">>, <<"c">>}

Rules == [target : Targets, replacement : Outputs]

\* replacements.json: no item, one, or two with different keys
CanonReplacementSets ==
    {<<>>}
    \cup {<<r>> : r \in Rules}
    \cup {<<pair[1], pair[2]>> :
              pair \in {x \in Rules \X Rules : x[1].target # x[2].target}}

InitCanon ==
    /\ cpc = "first"
    /\ creplacements \in CanonReplacementSets
    /\ cvalue \in Titles
    /\ ck = 0
    /\ cfirst = <<>>
    /\ pc = "idle"
    /\ replacements = <<>>
    /\ additional_stream_data = NoTable
    /\ to_skip = 0
    /\ nrows = 0
    /\ previous_index = NoneInt
    /\ previous_date = NoneDate
    /\ part = 1
    /\ rows = <<>>
    /\ src_index = <<>>
    /\ last = NoLast
    /\ seen = NoneSeen
    /\ out = <<>>

\* one turn of the for loop: value = value.replace(target, replacement)
CanonReplace ==
    /\ cpc \in {"first", "second"}
    /\ ck < Len(creplacements)
    /\ cvalue' = Replace(cvalue, creplacements[ck + 1].target,
                         creplacements[ck + 1].replacement)
    /\ ck' = ck + 1
    /\ UNCHANGED <<cpc, creplacements, cfirst>>
    /\ UNCHANGED nvars

\* return value, and the caller passes it to canonicalise again
CanonReturnFirst ==
    /\ cpc = "first"
    /\ ck = Len(creplacements)
    /\ cfirst' = cvalue
    /\ cpc' = "second"
    /\ ck' = 0
    /\ UNCHANGED <<creplacements, cvalue>>
    /\ UNCHANGED nvars

\* return value, from the second call
CanonReturnSecond ==
    /\ cpc = "second"
    /\ ck = Len(creplacements)
    /\ cpc' = "done"
    /\ UNCHANGED <<creplacements, ck, cvalue, cfirst>>
    /\ UNCHANGED nvars

NextCanon == CanonReplace \/ CanonReturnFirst \/ CanonReturnSecond

SpecCanon == InitCanon /\ [][NextCanon]_vars

SpecOverride == InitOverride /\ [][Next]_vars

-----------------------------------------------------------------------------
(* The claims about read_and_standardise.                                  *)

\* the row the loop took in this step is one the graph filter names
TookGraphRow ==
    /\ nrows' = nrows + 1
    /\ \/ (last'.index = <<>> /\ last'.date # <<>>)
       \/ last'.other_date = Today

\* the loop took a blank-index row right after it skipped a joke entry,
\* and got as far as index, date and part for it
TookContinuationAfterJoke ==
    /\ last.kind = "joke"
    /\ nrows' = nrows + 1
    /\ last'.index = <<>>
    /\ last'.kind \in {"emitted", "joke"}

\* C1: a record from a row with a non-blank index field has the integer
\* parsed from that field as its index, and a record from a row with a
\* blank index field has the index of the record emitted just before it,
\* whatever rows were dropped in between.
C1_IndexCarryForward ==
    \A k \in 1..Len(rows) :
        /\ src_index[k] # <<>> => rows[k].index = ParseInt(src_index[k])
        /\ src_index[k] = <<>> => k > 1 /\ rows[k].index = rows[k - 1].index

\* C1 witness: a blank-index record right behind a record of the same or a
\* higher part, which takes a skipped joke entry with an index of its own
\* between the two.
C1_Witness ==
    \E k \in 2..Len(rows) :
        /\ src_index[k] = <<>>
        /\ rows[k].part <= rows[k - 1].part
        /\ rows[k].index = 5

\* C2: every record from a row with a non-blank index has part 1, and every
\* record from a blank-index row has the index of the record emitted just
\* before it and a part one greater than that record's part.
C2_PartCounting ==
    \A k \in 1..Len(rows) :
        /\ src_index[k] # <<>> => rows[k].part = 1
        /\ src_index[k] = <<>> =>
               /\ k > 1
               /\ rows[k].index = rows[k - 1].index
               /\ rows[k].part = rows[k - 1].part + 1

\* C5: a row with a blank index and a non-blank date, or with (Today) as
\* its other date, emits no record and leaves previous_index,
\* previous_date and part as they were, so that the loop goes on as if
\* the row had not been there.
C5_GraphRowLeavesNoTrace ==
    [][TookGraphRow =>
           /\ rows' = rows
           /\ previous_index' = previous_index
           /\ previous_date' = previous_date
           /\ part' = part
           /\ pc' = pc]_vars

\* C5 witness: a (Today) row with an index and a date of its own was taken
\* in the middle of a multi-part stream.
C5_Witness ==
    /\ last.kind = "graph"
    /\ last.other_date = Today
    /\ last.index # <<>>
    /\ Len(rows) > 1
    /\ part > 1

\* no entry of additional_stream_data has an index or a part field
NoIndexOrPartOverride ==
    \A i \in DOMAIN additional_stream_data :
        /\ "index" \notin DOMAIN additional_stream_data[i]
        /\ "part" \notin DOMAIN additional_stream_data[i]

\* C7: merging the entry of additional_stream_data overrides nothing: the
\* record keeps the index, date and part computed from its row, whatever
\* the entry holds.
C7_OverrideAddsOnly ==
    (last.kind = "emitted" /\ rows # <<>>) =>
        /\ rows[Len(rows)].index = last.current_index
        /\ rows[Len(rows)].date = FormatDate(last.current_date)
        /\ rows[Len(rows)].part = last.part

\* C9: a row the joke-entry filter drops emits no record, and a blank-index
\* row right after it resolves to the dropped row's index and date and
\* gets a part one greater than the dropped row's part.
C9_JokeAdvancesAll ==
    [][/\ (nrows' = nrows + 1 /\ last'.kind = "joke") => rows' = rows
       /\ TookContinuationAfterJoke =>
              /\ last'.current_index = last.current_index
              /\ last'.current_date = last.current_date
              /\ last'.part = last.part + 1]_vars

\* C9 as amended: a row the joke-entry filter drops emits no record, and a
\* blank-index row right after it resolves to the index and date of the
\* last emitted record, and gets a part one greater than the dropped row's
\* part.
C9_JokeAdvancesPartOnly ==
    [][/\ (nrows' = nrows + 1 /\ last'.kind = "joke") => rows' = rows
       /\ TookContinuationAfterJoke =>
              /\ rows # <<>>
              /\ last'.current_index = rows[Len(rows)].index
              /\ FormatDate(last'.current_date) = rows[Len(rows)].date
              /\ last'.part = last.part + 1]_vars

\* C9 witness: a blank-index row was emitted whose part is not one more than
\* the part of the record before it: a joke entry was skipped in between.
C9_Witness ==
    /\ last.kind = "emitted"
    /\ last.index = <<>>
    /\ Len(rows) > 1
    /\ rows[Len(rows)].part # rows[Len(rows) - 1].part + 1

\* C10: when the non-blank index values of the rows are pairwise distinct
\* and no override has an index or a part field, no two records have the
\* same index and part.
C10_DistinctIndexAndPart ==
    (pc = "read" /\ ~seen.repeated /\ NoIndexOrPartOverride) =>
        \A j, k \in 1..Len(rows) :
            j < k => <<rows[j].index, rows[j].part>> # <<rows[k].index, rows[k].part>>

-----------------------------------------------------------------------------
(* The claims about generate_wiki_source.                                  *)

\* the positions of the StreamIndexEntry lines of out
EntryPositions == {i \in 1..Len(out) : out[i].kind = "entry"}

\* the entry line names this argument
HasArgument(line, name) ==
    \E a \in 1..Len(line.arguments) : line.arguments[a].name = name

\* the entry line has name=value among its arguments
HasArgumentValue(line, name, value) ==
    \E a \in 1..Len(line.arguments) :
        /\ line.arguments[a].name = name
        /\ line.arguments[a].value = value

\* the indices that have a record with part > 1
MultipartIndices == {rows[k].index : k \in {j \in 1..Len(rows) : rows[j].part > 1}}

\* C3: for every index with more than one record, an entry rendered with
\* last_part=1 belongs to the record with the highest part among the
\* records of that index.
C3_LastPartIsHighestPart ==
    pc = "done" =>
        \A i \in EntryPositions :
            HasArgumentValue(out[i], <<"last_part">>, <<"1">>) =>
                LET r == rows[out[i].of]
                    same == {k \in 1..Len(rows) : rows[k].index = r.index}
                IN  Cardinality(same) > 1 =>
                        \A k \in same : rows[k].part <= r.part

\* C4: a record whose index is not in the multipart set is rendered with
\* neither a part nor a last_part argument, and a record whose index is in
\* it is rendered with its part.
C4_PartOnlyForMultipart ==
    pc = "done" =>
        \A i \in EntryPositions :
            LET r == rows[out[i].of]
            IN  IF r.index \in MultipartIndices
                THEN HasArgumentValue(out[i], <<"part">>, Str(r.part))
                ELSE /\ ~HasArgument(out[i], <<"part">>)
                     /\ ~HasArgument(out[i], <<"last_part">>)

\* C4 witness: a table with a single-part stream and a multi-part stream.
C4_Witness ==
    /\ pc = "done"
    /\ \E i, j \in EntryPositions :
           /\ rows[out[i].of].index \notin MultipartIndices
           /\ rows[out[j].of].index \in MultipartIndices
           /\ rows[out[j].of].part = 1

\* C8: there is one StreamIndexEntry line for each record, the k-th of them
\* for the k-th record from the end, all between the header row and the
\* table close, and the warning stands before the table and after it.
C8_OneLinePerRecordReversed ==
    pc = "done" =>
        LET n == Len(rows)
            w == Len(WARNING)
        IN  /\ Cardinality(EntryPositions) = n
            /\ \E h, c \in 1..Len(out) :
                   /\ out[h] = HeaderRow
                   /\ out[c] = TableClose
                   /\ \A i \in EntryPositions : h < i /\ i < c
                   /\ SubSeq(out, 1, w) = WARNING
                   /\ w < h
                   /\ \E e \in (c + 1)..Len(out) : SubSeq(out, e, e + w - 1) = WARNING
            /\ \A i \in EntryPositions :
                   /\ out[i].of = n + 1 - Cardinality({j \in EntryPositions : j <= i})
                   /\ HasArgumentValue(out[i], <<"index">>, Str(rows[out[i].of].index))

\* C8 witness: a table of three records or more, the first and the last of
\* them of different streams.
C8_Witness ==
    /\ pc = "done"
    /\ Len(rows) >= 3
    /\ rows[1].index # rows[Len(rows)].index

-----------------------------------------------------------------------------
(* The claim about canonicalise.                                           *)

\* t occurs in s
Occurs(t, s) ==
    \E i \in 1..(Len(s) - Len(t) + 1) : SubSeq(s, i, i + Len(t) - 1) = t

\* no replacement target occurs in the output of any replacement
NoTargetInAnyOutput(reps) ==
    \A i, j \in 1..Len(reps) : ~Occurs(reps[i].target, reps[j].replacement)

\* every output is non-empty and has no character of any target
OutputsSetApart(reps) ==
    \A i, j \in 1..Len(reps) :
        /\ reps[j].replacement # <<>>
        /\ \A a \in 1..Len(reps[i].target), b \in 1..Len(reps[j].replacement) :
               reps[i].target[a] # reps[j].replacement[b]

\* C6: when no replacement target occurs in any replacement's output,
\* canonicalise applied to its own result changes nothing, also when a
\* replacement is the empty string.
C6_IdempotentNoTargetInOutput ==
    (cpc = "done" /\ NoTargetInAnyOutput(creplacements)) => cvalue = cfirst

\* C6 as amended: when no replacement target occurs in any replacement's
\* output, and every output is non-empty and shares no character with any
\* target, canonicalise applied to its own result changes nothing.
C6_IdempotentOutputsSetApart ==
    (/\ cpc = "done"
     /\ NoTargetInAnyOutput(creplacements)
     /\ OutputsSetApart(creplacements)) => cvalue = cfirst

\* C6 witness: two rules, both of which changed the title in the first call.
C6_Witness ==
    /\ cpc = "done"
    /\ Len(creplacements) = 2
    /\ NoTargetInAnyOutput(creplacements)
    /\ OutputsSetApart(creplacements)
    /\ Len(cfirst) = 2
    /\ cfirst[1] = "c"
    /\ cfirst[2] = "c"
    /\ creplacements[1].target = <<"a", "b">>
    /\ creplacements[2].target = <<"a">>

====
